---------------------------- MODULE Spec2Model ----------------------------
(***************************************************************************)
(* State-machine model of SQLDispatcher._read                              *)
(* (modin/core/io/sql/sql_dispatcher.py).                                  *)
(*                                                                         *)
(* One call of _read is followed from its entry to its return or raise.    *)
(* The tasks submitted through cls.deploy run concurrently with the        *)
(* caller and with each other, and the database that the queries read may  *)
(* be written by other clients while the call is in progress.              *)
(*                                                                         *)
(* The result of the query `sql` is a sequence of rows; a row is its value *)
(* in the column "id".  Strings built with str.format are sequences of     *)
(* their pieces.                                                           *)
(***************************************************************************)
EXTENDS Integers, Sequences, FiniteSets, TLC

\* ------------------------------------------------------------------ bounds
MaxRows == 4          \* rows the query returns when the call starts
MaxP == 3             \* largest configured NPartitions
MaxMutations == 1     \* writes of other clients during one call

VARIABLES
    pc,             \* position of the call inside _read
    con,            \* the local variable con
    index_col,      \* the argument index_col
    NPartitions,    \* the configured modin.config.NPartitions
    source,         \* rows the query `sql` returns now
    mutations,      \* writes of other clients so far
    probes,         \* the pandas.read_sql calls issued by _read
    row_cnt, cols_names, num_partitions, limit, part,
    partition_ids, index_ids, dtype_ids,
    tasks,          \* arguments of the submitted tasks, in submission order
    futures,        \* state of the submitted tasks
    out_of_order,   \* a task has finished before one submitted earlier
    materialized,   \* the handle lists passed to cls.materialize
    new_index, new_frame,
    warned,         \* warnings.warn calls
    result,         \* the returned value
    error           \* the raised exception

vars == << pc, con, index_col, NPartitions, source, mutations,
           probes, row_cnt, cols_names, num_partitions, limit, part,
           partition_ids, index_ids, dtype_ids, tasks, futures, out_of_order,
           materialized, new_index, new_frame, warned, result, error >>

\* ----------------------------------------------------------------- values
None == "None"
Unset == -1                       \* a local that is not bound yet

Min(a, b) == IF a < b THEN a ELSE b

RECURSIVE SumSeq(_)
SumSeq(s) == IF s = << >> THEN 0 ELSE Head(s) + SumSeq(Tail(s))

RECURSIVE Flatten(_)
Flatten(ss) == IF ss = << >> THEN << >> ELSE Head(ss) \o Flatten(Tail(ss))

\* the results of the query: k rows with the ids k, k-1, .. 1, for k in 0..n
RowSeqs(n) == { [i \in 1..k |-> k - i + 1] : k \in 0..n }

\* the columns of the query's result
TableCols == << "id", "val" >>

\* ------------------------------------------------------------ connections
NoInfo == [user |-> "", password |-> "", host |-> "", port |-> 0, dbname |-> ""]

StrCon(url) == [kind |-> "str", url |-> url, info |-> NoInfo]
PgCon(info) == [kind |-> "pg", url |-> << >>, info |-> info]
OtherCon == [kind |-> "other", url |-> << >>, info |-> NoInfo]

\* str(con.info.port)
PortStr(p) == IF p = 5432 THEN "5432" ELSE IF p = 6543 THEN "6543" ELSE "0"

PgInfos ==
    [user : {"u"}, password : {"pw"}, host : {"/tmp", "db.host"},
     port : {5432, 6543}, dbname : {"d"}]

Connections ==
    { StrCon(<< "sqlite:///", "db" >>), OtherCon } \cup { PgCon(i) : i \in PgInfos }

\* isinstance(con, pg.extensions.connection)
isinstance_pg(c) == c.kind = "pg"

\* a test for the driver connection in the place of the test for a string
isinstance_str_not_pg(c) == c.kind # "pg"

\* isinstance(con, str)
isinstance_str(c) == c.kind = "str"

\* the port kept when the host is the Unix-socket directory
pg_url_port_kept(info) ==
    << "postgresql+psycopg2://", info.user, ":", info.password, "@",
       IF info.host # "/tmp" THEN info.host ELSE "",
       ":" \o PortStr(info.port),
       "/", info.dbname >>

\* "postgresql+psycopg2://{}:{}@{}{}/{}".format(user, password, host, port, dbname)
pg_url(info) ==
    << "postgresql+psycopg2://", info.user, ":", info.password, "@",
       IF info.host # "/tmp" THEN info.host ELSE "",
       IF info.host # "/tmp" THEN ":" \o PortStr(info.port) ELSE "",
       "/", info.dbname >>


\* ------------------------------------------------------- results and errors
NoError == [kind |-> "none", task |-> 0]
ProbeQueryError == [kind |-> "ProbeQueryError", task |-> 0]
\* the exception raised inside the t-th submitted task
PartitionFetchError(t) == [kind |-> "PartitionFetchError", task |-> t]

NoIndex == [kind |-> "none", values |-> << >>, names |-> None]
NoFrame == [built |-> FALSE, partitions |-> << >>, index |-> NoIndex,
            columns |-> << >>, synchronized |-> FALSE]
NoResult == [kind |-> "none", frame |-> NoFrame]

\* pandas.RangeIndex(n)
RangeIndex(n) == [kind |-> "range", values |-> [i \in 1..n |-> i - 1], names |-> None]

\* pandas.Index(lst).set_names(names)
Index(lst, names) == [kind |-> "index", values |-> lst, names |-> names]

\* ------------------------------------------------------------ the database
\* rows returned by "SELECT * FROM (sql) as foo LIMIT l OFFSET o"
select_limit_offset(rows, l, o) == SubSeq(rows, o + 1, Min(o + l, Len(rows)))

\* the value of "SELECT COUNT(*) FROM (sql) as foo"
select_count(rows) == Len(rows)

\* the columns of "SELECT * FROM (sql) as foo LIMIT 0" read with index_col
select_columns(ic) == SelectSeq(TableCols, LAMBDA c : c # ic)

\* ---------------------------------------------------------- the substrate
\* a handle returned by cls.deploy: output `out` of the t-th submitted task
Handle(t, out) == [task |-> t, out |-> out]

\* cls.deploy(cls.parse, n, kw): the n handles of the t-th submitted task
deploy(t, n) == [out \in 1..n |-> Handle(t, out)]

Pending == [status |-> "pending", rows |-> << >>]
Done(rows) == [status |-> "done", rows |-> rows]
Failed == [status |-> "failed", rows |-> << >>]

\* cls.parse(num_splits, sql, con, index_col): the last two of its outputs
parse_index(ic, rows) == IF ic = None THEN Len(rows) ELSE rows
parse_dtypes(ic) == select_columns(ic)

\* the value a handle resolves to once its task is done
Value(h) ==
    LET t == tasks[h.task]
        f == futures[h.task]
    IN  IF h.out <= t.num_splits THEN [block |-> h.out, rows |-> f.rows]
        ELSE IF h.out = t.num_splits + 1 THEN parse_index(t.index_col, f.rows)
        ELSE parse_dtypes(t.index_col)

Status(h) == futures[h.task].status

\* cls.materialize(handles) returns: every handle is resolved
materialize_returns(hs) == \A i \in 1..Len(hs) : Status(hs[i]) = "done"

\* cls.materialize(handles) raises the error of a failed handle
materialize_raises(hs, i) == i \in 1..Len(hs) /\ Status(hs[i]) = "failed"

materialize(hs) == [i \in 1..Len(hs) |-> Value(hs[i])]

\* an entry of dtype_ids that is a list (partition_ids[-1]), not a handle
list_ref(items) == [list |-> items]

\* cls.frame_partition_cls(obj)
frame_partition_cls(obj) == [obj |-> obj]

\* cls.single_worker_read(sql, con=con, index_col=index_col, **kwargs)
single_worker_read(c, ic) == [kind |-> "single_worker_read", frame |-> NoFrame]

\* cls.query_compiler_cls(new_frame)
query_compiler_cls(frame) == [kind |-> "query_compiler", frame |-> frame]

\* ------------------------------------------------------------------- Init
Init ==
    /\ pc = "start"
    /\ con \in Connections
    /\ index_col \in {None, "id"}
    /\ NPartitions \in 1..MaxP
    /\ source \in RowSeqs(MaxRows)
    /\ mutations = 0
    /\ probes = << >>
    /\ row_cnt = Unset
    /\ cols_names = << >>
    /\ num_partitions = Unset
    /\ limit = Unset
    /\ part = Unset
    /\ partition_ids = << >>
    /\ index_ids = << >>
    /\ dtype_ids = << >>
    /\ tasks = << >>
    /\ futures = << >>
    /\ out_of_order = FALSE
    /\ materialized = << >>
    /\ new_index = NoIndex
    /\ new_frame = NoFrame
    /\ warned = 0
    /\ result = NoResult
    /\ error = NoError


\* ------------------------------------------------------------- the planner
\* round(row_cnt / num_partitions) in the place of math.ceil
ceil_div_round(a, b) == (2 * a + b) \div (2 * b)

\* row_cnt // num_partitions in the place of math.ceil
ceil_div_floor(a, b) == a \div b

\* math.ceil(row_cnt / num_partitions)
ceil_div(a, b) == IF a % b = 0 THEN a \div b ELSE (a \div b) + 1

\* the ranges counted from 1 in the place of 0
offset_of_next(p, l) == (p + 1) * l

\* offset = part * limit
offset_of(p, l) == p * l

\* the end of the range, offset + limit, in the place of the limit
query_end(l, o) == [limit |-> o + l, offset |-> o]

\* the two format arguments swapped
query_swapped(l, o) == [limit |-> o, offset |-> l]

\* "SELECT * FROM ({}) as foo LIMIT {} OFFSET {}".format(sql, limit, offset)
query(l, o) == [limit |-> l, offset |-> o]

\* partition_id[:-1] in the place of partition_id[:-2]
data_handles_but_last(partition_id) == SubSeq(partition_id, 1, Len(partition_id) - 1)

\* partition_id[:-2]
data_handles(partition_id) == SubSeq(partition_id, 1, Len(partition_id) - 2)

\* index_ids[:1] in the place of index_ids
reconcile_handles_first(ids) == SubSeq(ids, 1, 1)

\* the handles passed to cls.materialize: index_ids
reconcile_handles(ids) == ids

\* the number of partitions in the place of the sum of their lengths
reconcile_index_count(ic, vals) ==
    IF ic = None THEN RangeIndex(Len(vals)) ELSE Index(Flatten(vals), ic)

\* the positions of the rows in the place of the values the tasks returned
reconcile_index_rederived(ic, vals) ==
    IF ic = None THEN RangeIndex(SumSeq(vals))
    ELSE Index([i \in 1..Len(Flatten(vals)) |-> i - 1], ic)

\* new_index, from the materialized values of the index handles
reconcile_index(ic, vals) ==
    IF ic = None THEN RangeIndex(SumSeq(vals)) ELSE Index(Flatten(vals), ic)

\* ---------------------------------------------------------------- actions
\* lines 59-73: a psycopg2 connection becomes its connection string
Normalize ==
    /\ pc = "start"
    /\ \E psycopg2 \in BOOLEAN :       \* `import psycopg2` succeeds or not
        /\ isinstance_pg(con) => psycopg2
        /\ con' = IF psycopg2 /\ isinstance_pg(con)
                  THEN StrCon(pg_url(con.info)) ELSE con
    /\ pc' = "normalized"
    /\ UNCHANGED << index_col, NPartitions, source, mutations, probes,
                    row_cnt, cols_names, num_partitions, limit, part,
                    partition_ids, index_ids, dtype_ids, tasks, futures,
                    out_of_order, materialized, new_index, new_frame, warned,
                    result, error >>

\* lines 77-82 without the return: the warning, then the parallel read
CheckCon_no_return ==
    /\ pc = "normalized"
    /\ warned' = IF ~ isinstance_str(con) THEN warned + 1 ELSE warned
    /\ pc' = "count"
    /\ UNCHANGED << con, index_col, NPartitions, source, mutations,
                    probes, row_cnt, cols_names, num_partitions, limit, part,
                    partition_ids, index_ids, dtype_ids, tasks, futures,
                    out_of_order, materialized, new_index, new_frame, result,
                    error >>

\* lines 77-82: anything but a string is read by one worker
CheckCon ==
    /\ pc = "normalized"
    /\ IF ~ isinstance_str(con)
       THEN /\ warned' = warned + 1
            /\ result' = single_worker_read(con, index_col)
            /\ pc' = "fallback"
       ELSE /\ pc' = "count"
            /\ UNCHANGED << warned, result >>
    /\ UNCHANGED << con, index_col, NPartitions, source, mutations,
                    probes, row_cnt, cols_names, num_partitions, limit, part,
                    partition_ids, index_ids, dtype_ids, tasks, futures,
                    out_of_order, materialized, new_index, new_frame, error >>

\* the exception of a probe swallowed
after_probe_swallowed(ok, next) == next

\* where the call goes after a probe: pandas.read_sql returns or raises, and
\* nothing in _read catches
after_probe(ok, next) == IF ok THEN next ELSE "error"

\* lines 83-84: the count probe
CountProbe ==
    /\ pc = "count"
    /\ \E ok \in BOOLEAN :
        /\ probes' = Append(probes, [q |-> "count", ok |-> ok])
        /\ pc' = after_probe(ok, "schema")
        /\ row_cnt' = IF ok THEN select_count(source) ELSE row_cnt
        /\ error' = IF ok THEN error ELSE ProbeQueryError
    /\ UNCHANGED << con, index_col, NPartitions, source, mutations,
                    cols_names, num_partitions, limit, part, partition_ids,
                    index_ids, dtype_ids, tasks, futures, out_of_order,
                    materialized, new_index, new_frame, warned, result >>

\* lines 85-88: the schema probe
SchemaProbe ==
    /\ pc = "schema"
    /\ \E ok \in BOOLEAN :
        /\ probes' = Append(probes, [q |-> "schema", ok |-> ok])
        /\ pc' = after_probe(ok, "plan")
        /\ cols_names' = IF ok THEN select_columns(index_col) ELSE cols_names
        /\ error' = IF ok THEN error ELSE ProbeQueryError
    /\ UNCHANGED << con, index_col, NPartitions, source, mutations,
                    row_cnt, num_partitions, limit, part, partition_ids,
                    index_ids, dtype_ids, tasks, futures, out_of_order,
                    materialized, new_index, new_frame, warned, result >>

\* lines 89-93 with one partition per row when the rows are fewer than P
Plan_collapsed ==
    /\ pc = "plan"
    /\ num_partitions' = IF row_cnt < NPartitions
                         THEN (IF row_cnt = 0 THEN 1 ELSE row_cnt)
                         ELSE NPartitions
    /\ partition_ids' = << >>
    /\ index_ids' = << >>
    /\ dtype_ids' = << >>
    /\ limit' = ceil_div(row_cnt, num_partitions')
    /\ part' = 0
    /\ pc' = "dispatch"
    /\ UNCHANGED << con, index_col, NPartitions, source, mutations,
                    probes, row_cnt, cols_names, tasks, futures, out_of_order,
                    materialized, new_index, new_frame, warned, result, error >>

\* lines 89-93: the number of partitions and the limit of every range
Plan ==
    /\ pc = "plan"
    /\ num_partitions' = NPartitions
    /\ partition_ids' = << >>
    /\ index_ids' = << >>
    /\ dtype_ids' = << >>
    /\ limit' = ceil_div(row_cnt, NPartitions)
    /\ part' = 0
    /\ pc' = "dispatch"
    /\ UNCHANGED << con, index_col, NPartitions, source, mutations,
                    probes, row_cnt, cols_names, tasks, futures, out_of_order,
                    materialized, new_index, new_frame, warned, result, error >>

\* lines 94-114 with range(num_partitions - 1): the loop ends one turn early
Dispatch_short ==
    /\ pc = "dispatch"
    /\ part < num_partitions
    /\ LET offset == offset_of(part, limit)
           kw == [num_splits |-> num_partitions, sql |-> query(limit, offset),
                  con |-> con, index_col |-> index_col]
           partition_id == deploy(Len(tasks) + 1, num_partitions + 2)
           blocks == [j \in 1..Len(data_handles(partition_id)) |->
                         frame_partition_cls(data_handles(partition_id)[j])]
       IN  /\ tasks' = Append(tasks, kw)
           /\ futures' = Append(futures, Pending)
           /\ partition_ids' = Append(partition_ids, blocks)
           /\ index_ids' = Append(index_ids, partition_id[Len(partition_id) - 1])
           /\ dtype_ids' = Append(dtype_ids, list_ref(partition_ids'[Len(partition_ids')]))
    /\ part' = part + 1
    /\ pc' = IF part + 1 < num_partitions - 1 THEN "dispatch" ELSE "reconcile"
    /\ UNCHANGED << con, index_col, NPartitions, source, mutations,
                    probes, row_cnt, cols_names, num_partitions, limit,
                    out_of_order, materialized, new_index, new_frame, warned,
                    result, error >>

\* lines 94-114: one turn of the loop submits the task of `part`
Dispatch ==
    /\ pc = "dispatch"
    /\ part < num_partitions
    /\ LET offset == offset_of(part, limit)
           kw == [num_splits |-> num_partitions, sql |-> query(limit, offset),
                  con |-> con, index_col |-> index_col]
           partition_id == deploy(Len(tasks) + 1, num_partitions + 2)
           blocks == [j \in 1..Len(data_handles(partition_id)) |->
                         frame_partition_cls(data_handles(partition_id)[j])]
       IN  /\ tasks' = Append(tasks, kw)
           /\ futures' = Append(futures, Pending)
           /\ partition_ids' = Append(partition_ids, blocks)
           /\ index_ids' = Append(index_ids, partition_id[Len(partition_id) - 1])
           /\ dtype_ids' = Append(dtype_ids, list_ref(partition_ids'[Len(partition_ids')]))
    /\ part' = part + 1
    /\ pc' = IF part + 1 < num_partitions THEN "dispatch" ELSE "reconcile"
    /\ UNCHANGED << con, index_col, NPartitions, source, mutations,
                    probes, row_cnt, cols_names, num_partitions, limit,
                    out_of_order, materialized, new_index, new_frame, warned,
                    result, error >>

\* lines 115-122 with the error of a task caught: the index of the partitions
\* that were fetched
Reconcile_partial ==
    /\ pc = "reconcile"
    /\ LET hs == reconcile_handles(index_ids)
           ok == SelectSeq(hs, LAMBDA h : Status(h) = "done")
       IN  /\ \A i \in 1..Len(hs) : Status(hs[i]) # "pending"
           /\ materialized' = Append(materialized, hs)
           /\ new_index' = reconcile_index(index_col, materialize(ok))
    /\ pc' = "assemble"
    /\ UNCHANGED << con, index_col, NPartitions, source, mutations,
                    probes, row_cnt, cols_names, num_partitions, limit, part,
                    partition_ids, index_ids, dtype_ids, tasks, futures,
                    out_of_order, new_frame, warned, result, error >>

\* lines 115-122 with a check of the rows fetched against row_cnt
Reconcile_checked ==
    /\ pc = "reconcile"
    /\ LET hs == reconcile_handles(index_ids)
           idx == reconcile_index(index_col, materialize(hs))
       IN  /\ materialize_returns(hs)
           /\ materialized' = Append(materialized, hs)
           /\ IF Len(idx.values) = row_cnt
              THEN /\ new_index' = idx
                   /\ pc' = "assemble"
                   /\ error' = error
              ELSE /\ new_index' = new_index
                   /\ pc' = "error"
                   /\ error' = [kind |-> "IndexMismatchError", task |-> 0]
    /\ UNCHANGED << con, index_col, NPartitions, source, mutations,
                    probes, row_cnt, cols_names, num_partitions, limit, part,
                    partition_ids, index_ids, dtype_ids, tasks, futures,
                    out_of_order, new_frame, warned, result >>

\* lines 115-122: the blocking materialize returns the index values
Reconcile ==
    /\ pc = "reconcile"
    /\ LET hs == reconcile_handles(index_ids)
       IN  /\ materialize_returns(hs)
           /\ materialized' = Append(materialized, hs)
           /\ new_index' = reconcile_index(index_col, materialize(hs))
    /\ pc' = "assemble"
    /\ UNCHANGED << con, index_col, NPartitions, source, mutations,
                    probes, row_cnt, cols_names, num_partitions, limit, part,
                    partition_ids, index_ids, dtype_ids, tasks, futures,
                    out_of_order, new_frame, warned, result, error >>

\* lines 115-122: the blocking materialize raises the error of a failed task
ReconcileRaise ==
    /\ pc = "reconcile"
    /\ LET hs == reconcile_handles(index_ids)
       IN  \E i \in 1..Len(hs) :
            /\ materialize_raises(hs, i)
            /\ materialized' = Append(materialized, hs)
            /\ error' = PartitionFetchError(hs[i].task)
    /\ pc' = "error"
    /\ UNCHANGED << con, index_col, NPartitions, source, mutations,
                    probes, row_cnt, cols_names, num_partitions, limit, part,
                    partition_ids, index_ids, dtype_ids, tasks, futures,
                    out_of_order, new_index, new_frame, warned, result >>

\* lines 123-125 with the data blocks of the first partition fetched for the frame
Assemble_blocking ==
    /\ pc = "assemble"
    /\ new_frame' = [built |-> TRUE, partitions |-> partition_ids,
                     index |-> new_index, columns |-> cols_names,
                     synchronized |-> TRUE]
    /\ result' = query_compiler_cls(new_frame')
    /\ materialized' =
        Append(materialized,
               [j \in 1..Len(partition_ids[1]) |-> partition_ids[1][j].obj])
    /\ pc' = "done"
    /\ UNCHANGED << con, index_col, NPartitions, source, mutations,
                    probes, row_cnt, cols_names, num_partitions, limit, part,
                    partition_ids, index_ids, dtype_ids, tasks, futures,
                    out_of_order, new_index, warned, error >>

\* lines 123-125: the frame, its labels, the query compiler
Assemble ==
    /\ pc = "assemble"
    /\ new_frame' = [built |-> TRUE, partitions |-> partition_ids,
                     index |-> new_index, columns |-> cols_names,
                     synchronized |-> TRUE]
    /\ result' = query_compiler_cls(new_frame')
    /\ pc' = "done"
    /\ UNCHANGED << con, index_col, NPartitions, source, mutations,
                    probes, row_cnt, cols_names, num_partitions, limit, part,
                    partition_ids, index_ids, dtype_ids, tasks, futures,
                    out_of_order, materialized, new_index, warned, error >>

\* a submitted task runs cls.parse on a worker: it fetches its range, or fails
TaskRun ==
    \E t \in 1..Len(tasks) :
        /\ futures[t].status = "pending"
        /\ \E ok \in BOOLEAN :
            futures' = [futures EXCEPT ![t] =
                IF ok THEN Done(select_limit_offset(source, tasks[t].sql.limit,
                                                    tasks[t].sql.offset))
                ELSE Failed]
        /\ out_of_order' =
            (out_of_order \/ \E u \in 1..(t - 1) : futures[u].status = "pending")
        /\ UNCHANGED << pc, con, index_col, NPartitions, source,
                        mutations, probes, row_cnt, cols_names, num_partitions,
                        limit, part, partition_ids, index_ids, dtype_ids, tasks,
                        materialized, new_index, new_frame, warned, result,
                        error >>

\* the call has counted the rows and a fetch is still to come
FetchesAhead ==
    \/ pc \in {"schema", "plan", "dispatch"}
    \/ pc = "reconcile" /\ \E t \in 1..Len(futures) : futures[t].status = "pending"

InsertAt(s, i, r) == SubSeq(s, 1, i) \o << r >> \o SubSeq(s, i + 1, Len(s))
DeleteAt(s, i) == SubSeq(s, 1, i - 1) \o SubSeq(s, i + 1, Len(s))

\* another client inserts a row, first or last, between the count probe and a fetch
SourceInsert ==
    /\ FetchesAhead
    /\ mutations < MaxMutations
    /\ \E i \in {0, Len(source)} :
        source' = InsertAt(source, i, MaxRows + mutations + 1)
    /\ mutations' = mutations + 1
    /\ UNCHANGED << pc, con, index_col, NPartitions, probes, row_cnt,
                    cols_names, num_partitions, limit, part, partition_ids,
                    index_ids, dtype_ids, tasks, futures, out_of_order,
                    materialized, new_index, new_frame, warned, result, error >>

\* another client deletes the first or the last row between the count probe and a fetch
SourceDelete ==
    /\ FetchesAhead
    /\ mutations < MaxMutations
    /\ source # << >>
    /\ \E i \in {1, Len(source)} : source' = DeleteAt(source, i)
    /\ mutations' = mutations + 1
    /\ UNCHANGED << pc, con, index_col, NPartitions, probes, row_cnt,
                    cols_names, num_partitions, limit, part, partition_ids,
                    index_ids, dtype_ids, tasks, futures, out_of_order,
                    materialized, new_index, new_frame, warned, result, error >>

Next ==
    \/ Normalize
    \/ CheckCon
    \/ CountProbe
    \/ SchemaProbe
    \/ Plan
    \/ Dispatch
    \/ Reconcile
    \/ ReconcileRaise
    \/ Assemble
    \/ TaskRun
    \/ SourceInsert
    \/ SourceDelete

Spec == Init /\ [][Next]_vars

TypeOK ==
    /\ pc \in {"start", "normalized", "fallback", "count", "schema", "plan",
               "dispatch", "reconcile", "assemble", "done", "error"}
    /\ Len(tasks) = Len(futures)


\* ------------------------------------------------------------- properties
\* the loop of lines 94-114 has ended: the plan is complete
PlanComplete == part # Unset /\ part = num_partitions

\* range k (from 0) of the plan, as the sub-query of the k-th submitted task
PlanOffset(k) == tasks[k + 1].sql.offset
PlanLimit(k) == tasks[k + 1].sql.limit
PlanRange(k) == PlanOffset(k) .. (PlanOffset(k) + PlanLimit(k) - 1)

PlanShape ==
    /\ Len(tasks) = NPartitions
    /\ \A k \in 0..(NPartitions - 1) :
        /\ PlanLimit(k) * NPartitions >= row_cnt
        /\ (PlanLimit(k) - 1) * NPartitions < row_cnt
        /\ PlanOffset(k) = k * PlanLimit(k)
    /\ SumSeq([k \in 1..NPartitions |-> PlanLimit(k - 1)]) >= row_cnt
    /\ \A k \in 0..(NPartitions - 2) :
        PlanOffset(k + 1) - PlanOffset(k) = PlanLimit(k)

\* C1, as stated: P ranges, limit = ceil(rowCount / P), offset k = k * limit,
\* the limits sum to at least rowCount, and the offsets are strictly
\* increasing by limit from one range to the next, for every rowCount >= 0.
C1_AsStated ==
    PlanComplete =>
        /\ PlanShape
        /\ \A k \in 0..(NPartitions - 2) : PlanOffset(k + 1) > PlanOffset(k)

\* C1, amended: P ranges, limit = ceil(rowCount / P), offset k = k * limit,
\* the limits sum to at least rowCount, and each offset is the one before it
\* plus limit; the offsets are strictly increasing when rowCount > 0 and are
\* all 0 when rowCount = 0.
C1_Plan ==
    PlanComplete =>
        /\ PlanShape
        /\ row_cnt > 0 =>
            \A k \in 0..(NPartitions - 2) : PlanOffset(k + 1) > PlanOffset(k)
        /\ row_cnt = 0 =>
            \A k \in 0..(NPartitions - 1) : PlanOffset(k) = 0 /\ PlanLimit(k) = 0

C1_Witness ==
    /\ PlanComplete
    /\ NPartitions = 3
    /\ row_cnt = 4
    /\ PlanLimit(2) = 2 /\ PlanOffset(2) = 4

\* C2: the planned ranges [offset_k, offset_k + limit) are contiguous and do
\* not overlap, and every row position 0..rowCount-1 lies in exactly one.
C2_Cover ==
    PlanComplete =>
        /\ PlanOffset(0) = 0
        /\ \A k \in 0..(NPartitions - 2) :
            PlanOffset(k) + PlanLimit(k) = PlanOffset(k + 1)
        /\ \A j, k \in 0..(NPartitions - 1) :
            j # k => PlanRange(j) \cap PlanRange(k) = {}
        /\ \A pos \in 0..(row_cnt - 1) :
            Cardinality({ k \in 0..(NPartitions - 1) : pos \in PlanRange(k) }) = 1

C2_Witness ==
    /\ PlanComplete
    /\ NPartitions >= 2
    /\ row_cnt >= 3
    /\ \E k \in 0..(NPartitions - 1) : (row_cnt - 1) \in PlanRange(k)

\* the rows of column block j of partition k of the frame, once fetched
BlockRows(k, j) == Value(new_frame.partitions[k][j].obj).rows

\* C3: with no write to the source during the call, the rows of the P
\* partitions, concatenated in plan order, are the rows of one unpartitioned
\* fetch of the query, whatever the order in which the tasks finished.
C3_RowOrder ==
    (pc = "done" /\ mutations = 0) =>
        /\ Len(new_frame.partitions) = NPartitions
        /\ \A k \in 1..NPartitions : Len(new_frame.partitions[k]) = NPartitions
        /\ \A j \in 1..NPartitions :
            Flatten([k \in 1..NPartitions |-> BlockRows(k, j)])
                = source

C3_Witness ==
    /\ pc = "done"
    /\ mutations = 0
    /\ out_of_order
    /\ NPartitions = 3
    /\ Len(source) = 4
    /\ BlockRows(3, 1) = << >>

\* the index value (a length or a fragment) that the task of partition k returned
Fragment(k) == parse_index(tasks[k].index_col, futures[k].rows)

\* C4: with index_col None and no write to the source during the call, the
\* index of the result is 0..N-1 for the N rows of the source: its length is
\* the sum of the P partition lengths, which is the probed row count N, and
\* every value 0..N-1 occurs once.
C4_RangeIndex ==
    (pc = "done" /\ index_col = None /\ mutations = 0) =>
        LET idx == result.frame.index.values
            N == Len(source)
        IN  /\ Len(idx) = SumSeq([k \in 1..NPartitions |-> Fragment(k)])
            /\ Len(idx) = row_cnt
            /\ Len(idx) = N
            /\ \A i \in 1..N : idx[i] = i - 1
            /\ \A v \in 0..(N - 1) :
                Cardinality({ i \in 1..Len(idx) : idx[i] = v }) = 1

C4_Witness ==
    /\ pc = "done"
    /\ index_col = None
    /\ mutations = 0
    /\ NPartitions = 3
    /\ result.frame.index.values = << 0, 1, 2, 3 >>

\* rows of the partitions before partition k
FragmentsBefore(k) == SumSeq([u \in 1..(k - 1) |-> Len(Fragment(u))])

\* C5: with index_col given, the index of the result is the index fragments
\* of the partitions in plan order, each as its task returned it, whatever the
\* order in which the tasks finished.
C5_IndexConcat ==
    (pc \in {"assemble", "done"} /\ index_col # None) =>
        /\ new_index.names = index_col
        /\ Len(new_index.values) = FragmentsBefore(NPartitions + 1)
        /\ \A k \in 1..NPartitions : \A i \in 1..Len(Fragment(k)) :
            new_index.values[FragmentsBefore(k) + i] = Fragment(k)[i]
        /\ pc = "done" => result.frame.index = new_index

C5_Witness ==
    /\ pc = "done"
    /\ index_col = "id"
    /\ out_of_order
    /\ NPartitions = 3
    /\ result.frame.index.values = << 4, 3, 2, 1 >>
    /\ Fragment(2) = << 2, 1 >>

\* C6: a connection that is neither a string nor a recognized driver
\* connection gets a warning and the result of single_worker_read: no probe is
\* issued, no plan is computed, no task is submitted, and nothing is raised.
C6_Fallback ==
    (~ isinstance_str(con) /\ pc \notin {"start", "normalized"}) =>
        /\ pc = "fallback"
        /\ warned = 1
        /\ result = single_worker_read(con, index_col)
        /\ probes = << >>
        /\ row_cnt = Unset /\ num_partitions = Unset /\ limit = Unset
        /\ part = Unset
        /\ tasks = << >> /\ futures = << >> /\ materialized = << >>
        /\ error = NoError

C6_Witness ==
    /\ pc = "fallback"
    /\ con = OtherCon
    /\ warned = 1
    /\ result.kind = "single_worker_read"

AnyFailed == \E t \in 1..Len(futures) : futures[t].status = "failed"

\* C7: when a partition's fetch task fails, _read raises the error of a failed
\* partition: no frame and no query compiler is built, nothing is returned,
\* and no task is submitted again.
C7_FetchError ==
    AnyFailed =>
        /\ pc \notin {"assemble", "done"}
        /\ new_frame = NoFrame
        /\ result = NoResult
        /\ pc = "error" =>
            /\ error.kind = "PartitionFetchError"
            /\ error.task \in 1..Len(futures)
            /\ futures[error.task].status = "failed"
        /\ pc = "reconcile" => (ENABLED ReconcileRaise) /\ ~ (ENABLED Reconcile)
        /\ Len(tasks) = part
        /\ Len(tasks) <= NPartitions

C7_Witness ==
    /\ pc = "error"
    /\ error = PartitionFetchError(2)
    /\ NPartitions = 3
    /\ futures[1].status = "done"
    /\ futures[2].status = "failed"
    /\ futures[3].status = "done"

ProbeFailed == \E i \in 1..Len(probes) : ~ probes[i].ok

\* C8: when the count probe or the schema probe fails, the error reaches the
\* caller and the call ends before any partitioning: no range is planned and
\* no task is submitted.
C8_ProbeError ==
    ProbeFailed =>
        /\ pc = "error"
        /\ error = ProbeQueryError
        /\ ~ probes[Len(probes)].ok
        /\ \A i \in 1..(Len(probes) - 1) : probes[i].ok
        /\ num_partitions = Unset /\ limit = Unset /\ part = Unset
        /\ tasks = << >> /\ futures = << >>
        /\ result = NoResult

C8_Witness ==
    /\ pc = "error"
    /\ Len(probes) = 2
    /\ probes[1].ok
    /\ ~ probes[2].ok
    /\ probes[2].q = "schema"

\* C9: every submitted task carries the connection as a connection string,
\* never as a live connection, and all tasks of the call carry the same one.
C9_ConString ==
    \A t \in 1..Len(tasks) :
        /\ tasks[t].con.kind = "str"
        /\ tasks[t].con.url # << >>
        /\ tasks[t].con = tasks[1].con

C9_Witness ==
    /\ Len(tasks) = 3
    /\ tasks[3].con = StrCon(pg_url([user |-> "u", password |-> "pw",
                                     host |-> "db.host", port |-> 6543,
                                     dbname |-> "d"]))

\* C10: the frame is built only after the blocking materialize has joined all
\* P partitions: whenever assembly has started, the index or length result of
\* every partition has arrived, whatever the order of completion.
C10_Join ==
    (pc \in {"assemble", "done"} \/ new_frame.built) =>
        /\ Len(futures) = NPartitions
        /\ \A t \in 1..NPartitions : futures[t].status = "done"
        /\ materialized = << index_ids >>
        /\ Len(index_ids) = NPartitions

C10_Witness ==
    /\ pc = "assemble"
    /\ out_of_order
    /\ NPartitions = 3
    /\ ~ new_frame.built

\* the order of the phases of one call
PhaseRank(p) ==
    CASE p = "start" -> 0
      [] p = "normalized" -> 1
      [] p = "count" -> 2
      [] p = "schema" -> 3
      [] p = "plan" -> 4
      [] p = "dispatch" -> 5
      [] p = "reconcile" -> 6
      [] p = "assemble" -> 7
      [] p \in {"fallback", "done", "error"} -> 8

\* the steps between phases: Start -> ConnectionNormalized -> SingleUnitFallback
\* or the probes -> Planned -> Dispatched -> Reconciled -> Assembled, or an error
PhaseEdges ==
    { << "start", "normalized" >>, << "normalized", "fallback" >>,
      << "normalized", "count" >>, << "count", "schema" >>,
      << "schema", "plan" >>, << "plan", "dispatch" >>,
      << "dispatch", "reconcile" >>, << "reconcile", "assemble" >>,
      << "assemble", "done" >>, << "count", "error" >>,
      << "schema", "error" >>, << "reconcile", "error" >> }

\* what has and has not happened yet in each phase
PhaseState ==
    /\ PhaseRank(pc) <= 2 => probes = << >>
    /\ pc = "schema" => Len(probes) = 1 /\ probes[1].q = "count" /\ probes[1].ok
    /\ (PhaseRank(pc) \in 4..7 \/ pc = "done") =>
        /\ Len(probes) = 2
        /\ probes[1].q = "count" /\ probes[1].ok
        /\ probes[2].q = "schema" /\ probes[2].ok
    /\ tasks # << >> => Len(probes) = 2 /\ probes[1].ok /\ probes[2].ok
    /\ PhaseRank(pc) <= 4 => tasks = << >>
    /\ pc = "dispatch" => Len(tasks) = part /\ part < num_partitions
    /\ PhaseRank(pc) <= 5 => materialized = << >>
    /\ materialized # << >> => Len(tasks) = NPartitions
    /\ (pc \in {"reconcile", "assemble", "done"}) => Len(tasks) = NPartitions
    /\ pc \in {"reconcile", "assemble"} => ~ new_frame.built
    /\ new_frame.built => pc = "done" /\ Len(materialized) = 1
    /\ pc = "fallback" => probes = << >> /\ tasks = << >>
    /\ ProbeFailed => pc = "error"
    /\ AnyFailed => pc \notin {"assemble", "done"}
    /\ pc = "error" <=> error # NoError

\* the call moves along the edges only, never back, and stays where it ended
PhaseStep ==
    /\ pc' # pc => << pc, pc' >> \in PhaseEdges /\ PhaseRank(pc') > PhaseRank(pc)
    /\ pc \in {"fallback", "done", "error"} =>
        pc' = pc /\ result' = result /\ error' = error /\ tasks' = tasks
    /\ probes' # probes => pc \in {"count", "schema"} /\ pc' # pc
    /\ materialized' # materialized => pc = "reconcile" /\ pc' # pc
    /\ tasks' # tasks => pc = "dispatch" /\ part' = part + 1

\* C11: every run goes Start -> ConnectionNormalized -> SingleUnitFallback, or
\* -> Probed -> Planned -> Dispatched -> Reconciled -> Assembled: the count
\* probe precedes the schema probe, both precede the first task, all P tasks
\* precede the blocking materialize, the frame follows the materialize, no
\* phase is entered twice, and a failure before Assembled ends in an error.
C11_Phases == [] PhaseState /\ [][PhaseStep]_vars

C11_Witness ==
    /\ pc = "done"
    /\ NPartitions = 3
    /\ Len(probes) = 2
    /\ Len(tasks) = 3
    /\ Len(materialized) = 1
    /\ new_frame.built

\* the handle held at place (k, j) of the grid partition_ids
GridObj(k, j) == partition_ids[k][j].obj

\* one submission per turn of the loop, in plan order; row t of the grid holds
\* the data handles 1..P of task t, each at its own place, and no other row
\* holds a handle of task t
OncePerEntry ==
    /\ Len(tasks) <= NPartitions
    /\ Len(futures) = Len(tasks)
    /\ Len(partition_ids) = Len(tasks)
    /\ part # Unset => Len(tasks) = part
    /\ PlanComplete => Len(tasks) = NPartitions
    /\ \A t \in 1..Len(tasks) :
        /\ tasks[t].sql.limit = limit
        /\ tasks[t].sql.offset = (t - 1) * limit
        /\ tasks[t].num_splits = NPartitions
        /\ Len(partition_ids[t]) = NPartitions
        /\ \A j \in 1..NPartitions : GridObj(t, j) = Handle(t, j)
        /\ \A u \in 1..Len(tasks) : \A i \in 1..Len(partition_ids[u]) :
            GridObj(u, i).task = t => u = t
    /\ pc = "done" => new_frame.partitions = partition_ids

\* a submitted task stays submitted as it was, and its result is produced once
OnceProduced ==
    /\ \A t \in 1..Len(tasks) : t <= Len(tasks') /\ tasks'[t] = tasks[t]
    /\ Len(tasks') <= Len(tasks) + 1
    /\ \A t \in 1..Len(futures) :
        futures[t].status # "pending" => futures'[t] = futures[t]
    /\ \A t \in 1..Len(partition_ids) :
        t <= Len(partition_ids') /\ partition_ids'[t] = partition_ids[t]

\* C12: on the parallel path one fetch task is submitted per plan entry, P in
\* all and in plan order; each task's result is produced once and its
\* data-block handles are placed once, in the grid row of its own partition.
C12_OncePerEntry == [] OncePerEntry /\ [][OnceProduced]_vars

C12_Witness ==
    /\ pc = "done"
    /\ NPartitions = 3
    /\ row_cnt = 4
    /\ out_of_order
    /\ new_frame.partitions[3][2].obj = Handle(3, 2)

\* rows fetched by the task of partition k
Fetched(k) == Len(futures[k].rows)

TotalFetched == SumSeq([k \in 1..Len(futures) |-> Fetched(k)])

\* rowCount = 10, P = 3: the ranges (0,4), (4,4), (8,4) fetch 4 + 4 + 2 rows
ScenarioB ==
    LET rows == [i \in 1..10 |-> i]
        l == ceil_div(10, 3)
        got == [k \in 1..3 |->
                   Len(select_limit_offset(rows, query(l, offset_of(k - 1, l)).limit,
                                           query(l, offset_of(k - 1, l)).offset))]
    IN  /\ l = 4
        /\ [k \in 1..3 |-> offset_of(k - 1, l)] = << 0, 4, 8 >>
        /\ got = << 4, 4, 2 >>
        /\ SumSeq(got) = 10
        /\ 3 * l = 12

\* C13: P tasks are dispatched however small rowCount is.  With rowCount = 0
\* every sub-query has limit 0, the index has length 0 and the columns are
\* those of the zero-row probe.  With 0 < rowCount < P * limit (and no write
\* to the source during the call) the trailing ranges fetch fewer than limit
\* rows and the rows fetched are rowCount in all, not the sum of the limits.
C13_SmallCounts ==
    /\ PlanComplete => Len(tasks) = NPartitions
    /\ ScenarioB
    /\ (PlanComplete /\ row_cnt = 0) =>
        /\ \A k \in 1..NPartitions : tasks[k].sql.limit = 0
        /\ \A k \in 1..NPartitions : futures[k].status = "done" => Fetched(k) = 0
        /\ pc \in {"assemble", "done"} => new_index.values = << >>
        /\ pc = "done" =>
            /\ result.frame.index.values = << >>
            /\ result.frame.columns = select_columns(index_col)
            /\ result.frame.columns # << >>
    /\ (pc = "done" /\ mutations = 0 /\ 0 < row_cnt
            /\ row_cnt < NPartitions * limit) =>
        /\ TotalFetched = row_cnt
        /\ TotalFetched < SumSeq([k \in 1..NPartitions |-> tasks[k].sql.limit])
        /\ Fetched(NPartitions) < limit
        /\ \A k \in 1..NPartitions : Fetched(k) <= limit
        /\ \A k \in 1..NPartitions : Fetched(k) < limit =>
            \A j \in (k + 1)..NPartitions : Fetched(j) = 0
        /\ Len(result.frame.index.values) = row_cnt

C13_Witness ==
    /\ pc = "done"
    /\ mutations = 0
    /\ NPartitions = 3
    /\ row_cnt = 4
    /\ limit = 2
    /\ [k \in 1..3 |-> Fetched(k)] = << 2, 2, 0 >>

\* the empty result: P sub-queries with limit 0 and an index of length 0
C13_WitnessEmpty ==
    /\ pc = "done"
    /\ NPartitions = 3
    /\ row_cnt = 0
    /\ Len(tasks) = 3
    /\ result.frame.index.values = << >>

\* C14, as stated: every range of the plan has a non-negative offset and a
\* positive limit, for every P >= 1 and every rowCount >= 0.
C14_AsStated ==
    PlanComplete =>
        \A k \in 0..(NPartitions - 1) :
            /\ PlanOffset(k) \in Nat
            /\ PlanLimit(k) \in Nat
            /\ PlanLimit(k) > 0

\* C14, amended: every range of the plan has a non-negative offset and a
\* non-negative limit; the limit is positive when rowCount > 0 and is 0 when
\* rowCount = 0.
C14_Ranges ==
    PlanComplete =>
        \A k \in 0..(NPartitions - 1) :
            /\ PlanOffset(k) \in Nat
            /\ PlanLimit(k) \in Nat
            /\ row_cnt > 0 => PlanLimit(k) > 0
            /\ row_cnt = 0 => PlanLimit(k) = 0

C14_Witness ==
    /\ PlanComplete
    /\ NPartitions = 3
    /\ row_cnt = 1
    /\ \A k \in 0..2 : PlanLimit(k) = 1 /\ PlanOffset(k) = k

\* the rows of the source now that no partition has fetched
MissingRows ==
    { i \in 1..Len(source) :
        \A k \in 1..Len(futures) :
            \A j \in 1..Len(futures[k].rows) : futures[k].rows[j] # source[i] }

\* the rows that two partitions have both fetched
DuplicatedRows ==
    { r \in 1..(MaxRows + MaxMutations) :
        \E k, u \in 1..Len(futures) :
            /\ k # u
            /\ \E j \in 1..Len(futures[k].rows) : futures[k].rows[j] = r
            /\ \E j \in 1..Len(futures[u].rows) : futures[u].rows[j] = r }

AllDone ==
    /\ Len(futures) = NPartitions
    /\ \A t \in 1..NPartitions : futures[t].status = "done"

\* C15: a write to the source between the count probe and the fetches is not
\* detected: the only errors are those of a failed probe or a failed task, the
\* call goes on to the frame whenever every task has fetched, and the index has
\* as many entries as rows were fetched, whatever the probed rowCount was.
C15_Undetected ==
    /\ pc = "error" =>
        /\ error.kind \in {"ProbeQueryError", "PartitionFetchError"}
        /\ ProbeFailed \/ AnyFailed
    /\ (pc = "reconcile" /\ AllDone) => ENABLED Reconcile
    /\ pc = "assemble" => ENABLED Assemble
    /\ pc \in {"assemble", "done"} => Len(new_index.values) = TotalFetched
    /\ pc = "done" =>
        /\ result.kind = "query_compiler"
        /\ error = NoError
        /\ Len(result.frame.index.values) = TotalFetched
        /\ index_col = None =>
            result.frame.index.values = [i \in 1..TotalFetched |-> i - 1]

\* a row deleted during the call: a shorter index and a row that no partition has
C15_Witness ==
    /\ pc = "done"
    /\ mutations = 1
    /\ row_cnt = 4
    /\ Len(result.frame.index.values) = 3
    /\ MissingRows # {}
    /\ DuplicatedRows = {}

\* a row inserted during the call: a longer index and a row that two partitions have
C15_WitnessDuplicate ==
    /\ pc = "done"
    /\ mutations = 1
    /\ row_cnt = 3
    /\ Len(result.frame.index.values) = 4
    /\ DuplicatedRows # {}

\* C16: after dispatch the dispatcher retains, for every partition k, three
\* entries taken from task k's result: the data-block handles (all but the
\* last two), the index handle (the second to last) and the dtype handle (the
\* last); the k-th dtype entry is the dtype result of task k.
C16_Handles ==
    PlanComplete =>
        /\ Len(partition_ids) = NPartitions
        /\ Len(index_ids) = NPartitions
        /\ Len(dtype_ids) = NPartitions
        /\ \A k \in 1..NPartitions :
            /\ partition_ids[k] =
                [j \in 1..NPartitions |-> frame_partition_cls(Handle(k, j))]
            /\ index_ids[k] = Handle(k, NPartitions + 1)
            /\ dtype_ids[k] = Handle(k, NPartitions + 2)

\* what lines 110-114 retain: the dtype entry is the list of the wrapped data
\* blocks of the partition, and the last handle of the task is dropped
C16_Retained ==
    PlanComplete =>
        /\ Len(partition_ids) = NPartitions
        /\ Len(index_ids) = NPartitions
        /\ Len(dtype_ids) = NPartitions
        /\ \A k \in 1..NPartitions :
            /\ partition_ids[k] =
                [j \in 1..NPartitions |-> frame_partition_cls(Handle(k, j))]
            /\ index_ids[k] = Handle(k, NPartitions + 1)
            /\ dtype_ids[k] = list_ref(partition_ids[k])
            /\ dtype_ids[k] # Handle(k, NPartitions + 2)

\* the index handles of the P tasks, in plan order
IndexHandles == [k \in 1..NPartitions |-> Handle(k, NPartitions + 1)]

\* C17: on the parallel path _read calls the blocking materialize once, on the
\* P index (or length) handles only: no data-block handle and no dtype result
\* is materialized, and the assembly of the frame materializes nothing more.
C17_OneMaterialize ==
    /\ Len(materialized) <= 1
    /\ \A i \in 1..Len(materialized) :
        /\ materialized[i] = IndexHandles
        /\ \A j \in 1..Len(materialized[i]) :
            materialized[i][j].out = NPartitions + 1
    /\ pc \in {"start", "normalized", "fallback", "count", "schema", "plan",
               "dispatch", "reconcile"} => materialized = << >>
    /\ (pc \in {"assemble", "done"} \/ error.kind = "PartitionFetchError") =>
        materialized = << IndexHandles >>
    /\ pc = "done" => new_frame.synchronized /\ materialized = << index_ids >>

C17_Witness ==
    /\ pc = "done"
    /\ NPartitions = 3
    /\ new_frame.synchronized
    /\ materialized = << << Handle(1, 4), Handle(2, 4), Handle(3, 4) >> >>

\* a connection string that lines 63-71 have built
DerivedFromPg(c) == c.kind = "str" /\ c.url # << >> /\ c.url[1] = "postgresql+psycopg2://"

\* the string of a driver connection: user, password, host, port and database
\* name; host and port are both left out for the Unix-socket host "/tmp"
DerivedUrl(info, url) ==
    /\ Len(url) = 9
    /\ url[1] = "postgresql+psycopg2://"
    /\ url[2] = info.user /\ url[3] = ":" /\ url[4] = info.password
    /\ url[5] = "@"
    /\ info.host = "/tmp" => url[6] = "" /\ url[7] = ""
    /\ info.host # "/tmp" =>
        /\ url[6] = info.host
        /\ info.port = 5432 => url[7] = ":5432"
        /\ info.port = 6543 => url[7] = ":6543"
    /\ url[8] = "/" /\ url[9] = info.dbname

NormalizedStep ==
    /\ (pc = "start" /\ isinstance_pg(con) /\ pc' # pc) =>
        /\ pc' = "normalized"
        /\ isinstance_str(con')
        /\ DerivedUrl(con.info, con'.url)
    /\ (pc = "normalized" /\ DerivedFromPg(con) /\ pc' # pc) =>
        /\ pc' = "count"
        /\ warned' = 0
        /\ result' = NoResult
        /\ con' = con
    /\ DerivedFromPg(con) => con' = con

NormalizedState ==
    /\ pc # "start" => ~ isinstance_pg(con)
    /\ DerivedFromPg(con) =>
        /\ warned = 0
        /\ pc # "fallback"
        /\ result.kind # "single_worker_read"
        /\ \A t \in 1..Len(tasks) : tasks[t].con = con
        /\ PlanComplete => Len(tasks) = NPartitions

\* C18: a live connection of the recognized driver type always becomes a
\* connection string built from its user, password, host, port and database
\* name, and the call takes the parallel path without warning or fallback;
\* host and port are both omitted for the Unix-socket host and both present
\* otherwise.
C18_Normalized == [] NormalizedState /\ [][NormalizedStep]_vars

C18_Witness ==
    /\ pc = "done"
    /\ warned = 0
    /\ NPartitions = 2
    /\ con = StrCon(<< "postgresql+psycopg2://", "u", ":", "pw", "@", "", "",
                       "/", "d" >>)
    /\ tasks[2].con = con

\* the rows a task fetches are rows that the source holds, at the time of the
\* fetch, at the positions of the task's range, all below P * limit
FetchStep ==
    \A t \in 1..Len(futures) :
        (futures[t].status = "pending" /\ futures'[t].status = "done") =>
            LET got == futures'[t].rows
                o == (t - 1) * limit
            IN  /\ Len(got) <= limit
                /\ \A i \in 1..Len(got) :
                    /\ o + i <= Len(source)
                    /\ o + i <= NPartitions * limit
                    /\ got[i] = source[o + i]

FetchBound ==
    /\ \A t \in 1..Len(futures) : Fetched(t) <= limit
    /\ limit # Unset => TotalFetched <= NPartitions * limit
    /\ pc \in {"assemble", "done"} =>
        Len(new_index.values) <= NPartitions * limit
    /\ pc = "done" => Len(result.frame.index.values) <= NPartitions * limit

\* C19: in every run, also when the source is written between the count probe
\* and the fetches, each partition task fetches at most limit =
\* ceil(rowCount / P) rows, the index is no longer than P * limit, and no
\* partition reads a row that the source holds at a position >= P * limit.
C19_FetchBound == [] FetchBound /\ [][FetchStep]_vars

\* a row inserted during the call: five rows in the source, four fetched
C19_Witness ==
    /\ pc = "done"
    /\ mutations = 1
    /\ NPartitions = 2
    /\ row_cnt = 4
    /\ limit = 2
    /\ Len(source) = 5
    /\ Len(result.frame.index.values) = 4
    /\ \A k \in 1..2 : \A j \in 1..Len(futures[k].rows) :
        futures[k].rows[j] # source[5]

=============================================================================
